---- MODULE Spec2Model ----
(***************************************************************************)
(* A state-machine model of backend/ocr_processor.py: the command-line     *)
(* entry point main() and the orchestrator process_image_ocr().            *)
(*                                                                         *)
(* The OCR engine (easyocr.Reader and reader.readtext), the wall clock     *)
(* (time.time) and the command line (sys.argv) are the environment; their  *)
(* outcomes are drawn from small sets.  Assumptions on the environment:    *)
(*   - a failure raised by the engine or by the processing of its results  *)
(*     is an instance of Exception and carries a non-empty message;        *)
(*   - a write to stdout succeeds;                                         *)
(*   - a call into the engine returns or raises (it does not block         *)
(*     forever).                                                           *)
(*                                                                         *)
(* Units: a clock reading is a count of ticks of 5 ms (half a hundredth    *)
(* of a second), a processing time is a count of hundredths of a second;   *)
(* an engine confidence is a count of half-thousandths, a confidence       *)
(* score is a count of thousandths.  Texts are sequences of one-character  *)
(* strings.                                                                *)
(***************************************************************************)
EXTENDS Integers, Sequences, FiniteSets

\* Bounds of the model.
MaxResults == 2
MaxClock == 3

VARIABLES
    pc,                 \* position of the process in the code
    argv,               \* sys.argv
    stdout,             \* the lines written to stdout, in order
    exitStatus,         \* the exit status of the process, NoExit while it runs
    image_path,         \* main / process_image_ocr: image_path
    languages,          \* main / process_image_ocr: languages
    start_time,         \* process_image_ocr: start_time
    end_time,           \* the reading time.time() returned at line 37
    lang_list,          \* process_image_ocr: lang_list
    reader,             \* process_image_ocr: reader ("none" until constructed)
    results,            \* process_image_ocr: results
    i,                  \* number of results the loop of line 32 has consumed
    extracted_texts,    \* process_image_ocr: extracted_texts
    confidence_scores,  \* process_image_ocr: confidence_scores
    processing_time,    \* process_image_ocr: processing_time
    result,             \* main: result (the record process_image_ocr returned)
    e,                  \* the message str(e) of the exception raised in the try
    initCalls,          \* number of calls of easyocr.Reader(...)
    detectCalls         \* number of calls of reader.readtext(...)

vars == <<pc, argv, stdout, exitStatus, image_path, languages, start_time,
          end_time, lang_list, reader, results, i, extracted_texts,
          confidence_scores, processing_time, result, e, initCalls,
          detectCalls>>

----------------------------------------------------------------------------
\* The environment: command lines, files, engine, clock.

Program == "ocr_processor.py"

ExistingImages == {"img.png"}

Paths == {"img.png", "missing.png"}

\* Language strings; "," separates codes, every other character is a code.
LanguageStrings == { <<"e">>, <<"e", ",", "f">>, <<"x">>, <<>> }

SupportedLangs == { <<"e">>, <<"f">> }

ArgVectors ==
    { <<Program>> }
      \cup { <<Program, p>> : p \in Paths }
      \cup { <<Program, p, l>> : p \in Paths, l \in LanguageStrings }
      \cup { <<Program, "img.png", <<"e">>, "extra">> }

Whitespace == {" "}

Texts == { <<"a">>, <<" ", "a", " ">>, <<"a", " ", "b">>, <<" ">> }

Confidences == {3, 1996}

\* What the engine may return for one region.  A well-formed result is a
\* triple (bbox, text, confidence); the others make line 32, 33 or 34 raise.
DetectionResults ==
    [shape : {"ok"}, text : Texts, confidence : Confidences]
      \cup { [shape |-> "short",   text |-> <<"a">>, confidence |-> 3],
             [shape |-> "badconf", text |-> <<"a">>, confidence |-> 3],
             [shape |-> "badtext", text |-> <<"a">>, confidence |-> 3] }

ResultSeqs == UNION { [1..n -> DetectionResults] : n \in 0..MaxResults }

ClockReadings == 0..MaxClock

NoExit == -1
NoExc == "<none>"
NoRecord == [none |-> TRUE]

UsageMsg == "Missing arguments. Usage: python ocr_processor.py <image_path> <languages>"
UnsupportedLangMsg == "({'x'}, 'is not supported')"
InitFaultMsg == "engine initialization fault"
FileNotFoundMsg == "No such file: 'missing.png'"
DetectFaultMsg == "engine detection fault"
UnpackMsg == "not enough values to unpack (expected 3, got 2)"
FormatMsg == "unsupported format string passed to NoneType.__format__"
StripMsg == "'NoneType' object has no attribute 'strip'"

----------------------------------------------------------------------------
\* Pure functions of the code.

\* str.split(','): the pieces between the commas, empty pieces kept.
RECURSIVE Split(_)
Split(s) ==
    IF \A k \in 1..Len(s) : s[k] # ","
    THEN <<s>>
    ELSE LET c == CHOOSE k \in 1..Len(s) :
                      s[k] = "," /\ \A j \in 1..(k-1) : s[j] # ","
         IN  <<SubSeq(s, 1, c - 1)>> \o Split(SubSeq(s, c + 1, Len(s)))

\* str.strip(): drop the leading, then the trailing whitespace.
RECURSIVE LStrip(_)
LStrip(s) ==
    IF s # <<>> /\ Head(s) \in Whitespace THEN LStrip(Tail(s)) ELSE s

RECURSIVE RStrip(_)
RStrip(s) ==
    IF s # <<>> /\ s[Len(s)] \in Whitespace
    THEN RStrip(SubSeq(s, 1, Len(s) - 1))
    ELSE s

\* Mutant of Strip: only the leading whitespace is dropped (lstrip for strip).
Strip_LeftOnly(s) == LStrip(s)

Strip(s) == RStrip(LStrip(s))

\* ' '.join(texts)
RECURSIVE Join(_)
Join(texts) ==
    IF texts = <<>> THEN <<>>
    ELSE IF Len(texts) = 1 THEN texts[1]
    ELSE texts[1] \o <<" ">> \o Join(Tail(texts))

\* round(n / d): to the nearest integer, a tie to the even one.
RoundHalfEven(n, d) ==
    LET q == n \div d
        r == n % d
    IN  IF 2 * r < d THEN q
        ELSE IF 2 * r > d THEN q + 1
        ELSE IF q % 2 = 0 THEN q ELSE q + 1

\* round(confidence, 3): half-thousandths to thousandths.
Round3(confidence) == RoundHalfEven(confidence, 2)

\* round(elapsed, 2): ticks of 5 ms to hundredths of a second.
Round2(elapsed) == RoundHalfEven(elapsed, 2)

----------------------------------------------------------------------------
\* stdout.

ProgressLine(tag, args) == [kind |-> "progress", tag |-> tag, args |-> args]

\* print(json.dumps(record)): one line holding the JSON object.
JsonLine(record) == [kind |-> "json", keys |-> DOMAIN record, value |-> record]

WriteLine(line) == stdout' = Append(stdout, line)

WriteLines2(l1, l2) == stdout' = stdout \o <<l1, l2>>

----------------------------------------------------------------------------
Init ==
    /\ pc = "main"
    /\ argv \in ArgVectors
    /\ stdout = <<>>
    /\ exitStatus = NoExit
    /\ image_path = ""
    /\ languages = <<>>
    /\ start_time = 0
    /\ end_time = 0
    /\ lang_list = <<>>
    /\ reader = "none"
    /\ results = <<>>
    /\ i = 0
    /\ extracted_texts = <<>>
    /\ confidence_scores = <<>>
    /\ processing_time = 0
    /\ result = NoRecord
    /\ e = NoExc
    /\ initCalls = 0
    /\ detectCalls = 0

\* Mutant of MainUsageError: the usage error exits with status 0.
MainUsageError_ExitZero ==
    /\ pc = "main"
    /\ Len(argv) < 3
    /\ WriteLine(JsonLine([error |-> UsageMsg]))
    /\ exitStatus' = 0
    /\ pc' = "exited"
    /\ UNCHANGED <<argv, image_path, languages, start_time, end_time,
                   lang_list, reader, results, i, extracted_texts,
                   confidence_scores, processing_time, result, e, initCalls,
                   detectCalls>>

\* main, lines 63-65: too few arguments.
MainUsageError ==
    /\ pc = "main"
    /\ Len(argv) < 3
    /\ WriteLine(JsonLine([error |-> UsageMsg]))
    /\ exitStatus' = 1
    /\ pc' = "exited"
    /\ UNCHANGED <<argv, image_path, languages, start_time, end_time,
                   lang_list, reader, results, i, extracted_texts,
                   confidence_scores, processing_time, result, e, initCalls,
                   detectCalls>>

\* main, lines 63-71: the arguments are there; call process_image_ocr.
MainArgsValid ==
    /\ pc = "main"
    /\ ~(Len(argv) < 3)
    /\ image_path' = argv[2]
    /\ languages' = argv[3]
    /\ pc' = "L14"
    /\ UNCHANGED <<argv, stdout, exitStatus, start_time, end_time, lang_list,
                   reader, results, i, extracted_texts, confidence_scores,
                   processing_time, result, e, initCalls, detectCalls>>

\* process_image_ocr, lines 14-15.
StartTimer ==
    /\ pc = "L14"
    /\ WriteLine(ProgressLine("Starting OCR processing for", <<image_path>>))
    /\ \E now \in ClockReadings : start_time' = now
    /\ pc' = "L18"
    /\ UNCHANGED <<argv, exitStatus, image_path, languages, end_time,
                   lang_list, reader, results, i, extracted_texts,
                   confidence_scores, processing_time, result, e, initCalls,
                   detectCalls>>

\* process_image_ocr, lines 18-21: easyocr.Reader(lang_list, gpu=False) returns.
InitReaderOk ==
    /\ pc = "L18"
    /\ lang_list' = Split(languages)
    /\ \A k \in 1..Len(Split(languages)) : Split(languages)[k] \in SupportedLangs
    /\ initCalls' = initCalls + 1
    /\ reader' = "ready"
    /\ WriteLines2(ProgressLine("Initializing EasyOCR with languages", <<Split(languages)>>),
              ProgressLine("EasyOCR reader initialized successfully", <<>>))
    /\ pc' = "L24"
    /\ UNCHANGED <<argv, exitStatus, image_path, languages, start_time,
                   end_time, results, i, extracted_texts, confidence_scores,
                   processing_time, result, e, detectCalls>>

\* Mutant of InitReaderRaise: a failed initialization is tried once more.
InitReaderRaise_Retry ==
    /\ pc = "L18"
    /\ lang_list' = Split(languages)
    /\ initCalls' = initCalls + 1
    /\ WriteLine(ProgressLine("Initializing EasyOCR with languages", <<Split(languages)>>))
    /\ IF initCalls = 0
       THEN /\ pc' = "L18"
            /\ e' = e
       ELSE /\ pc' = "except"
            /\ e' = InitFaultMsg
    /\ UNCHANGED <<argv, exitStatus, image_path, languages, start_time,
                   end_time, reader, results, i, extracted_texts,
                   confidence_scores, processing_time, result, detectCalls>>

\* process_image_ocr, lines 18-20: easyocr.Reader(...) raises.
InitReaderRaise ==
    /\ pc = "L18"
    /\ lang_list' = Split(languages)
    /\ initCalls' = initCalls + 1
    /\ WriteLine(ProgressLine("Initializing EasyOCR with languages", <<Split(languages)>>))
    /\ IF \A k \in 1..Len(Split(languages)) : Split(languages)[k] \in SupportedLangs
       THEN e' = InitFaultMsg
       ELSE e' = UnsupportedLangMsg
    /\ pc' = "except"
    /\ UNCHANGED <<argv, exitStatus, image_path, languages, start_time,
                   end_time, reader, results, i, extracted_texts,
                   confidence_scores, processing_time, result, detectCalls>>

\* process_image_ocr, lines 24-30: reader.readtext(image_path) returns.
ReadTextOk ==
    /\ pc = "L24"
    /\ image_path \in ExistingImages
    /\ detectCalls' = detectCalls + 1
    /\ \E rs \in ResultSeqs :
          /\ results' = rs
          /\ WriteLines2(ProgressLine("Processing image...", <<>>),
                    ProgressLine("OCR processing completed. Found", <<Len(rs)>>))
    /\ extracted_texts' = <<>>
    /\ confidence_scores' = <<>>
    /\ i' = 0
    /\ pc' = "L32"
    /\ UNCHANGED <<argv, exitStatus, image_path, languages, start_time,
                   end_time, lang_list, reader, processing_time, result, e,
                   initCalls>>

\* process_image_ocr, lines 24-25: reader.readtext(image_path) raises.
ReadTextRaise ==
    /\ pc = "L24"
    /\ detectCalls' = detectCalls + 1
    /\ WriteLine(ProgressLine("Processing image...", <<>>))
    /\ IF image_path \in ExistingImages
       THEN e' = DetectFaultMsg
       ELSE e' = FileNotFoundMsg
    /\ pc' = "except"
    /\ UNCHANGED <<argv, exitStatus, image_path, languages, start_time,
                   end_time, lang_list, reader, results, i, extracted_texts,
                   confidence_scores, processing_time, result, initCalls>>

\* Mutant of LoopBody: a region whose trimmed text is empty is skipped.
LoopBody_SkipBlank ==
    /\ pc = "L32"
    /\ i < Len(results)
    /\ LET r == results[i + 1]
       IN  IF r.shape # "ok"
           THEN /\ e' = UnpackMsg
                /\ pc' = "except"
                /\ UNCHANGED <<stdout, i, extracted_texts, confidence_scores>>
           ELSE /\ WriteLine(ProgressLine("Text", <<i + 1, r.text, Round3(r.confidence)>>))
                /\ IF Strip(r.text) = <<>>
                   THEN UNCHANGED <<extracted_texts, confidence_scores>>
                   ELSE /\ extracted_texts' = Append(extracted_texts, Strip(r.text))
                        /\ confidence_scores' =
                               Append(confidence_scores, Round3(r.confidence))
                /\ i' = i + 1
                /\ UNCHANGED <<pc, e>>
    /\ UNCHANGED <<argv, exitStatus, image_path, languages, start_time,
                   end_time, lang_list, reader, results, processing_time,
                   result, initCalls, detectCalls>>

\* process_image_ocr, lines 32-35: one iteration of the loop over results.
LoopBody ==
    /\ pc = "L32"
    /\ i < Len(results)
    /\ LET r == results[i + 1]
           line == ProgressLine("Text", <<i + 1, r.text, Round3(r.confidence)>>)
       IN  CASE r.shape = "short" ->      \* line 32: the unpacking raises
                   /\ e' = UnpackMsg
                   /\ pc' = "except"
                   /\ UNCHANGED <<stdout, i, extracted_texts, confidence_scores>>
             [] r.shape = "badconf" ->    \* line 33: the formatting raises
                   /\ e' = FormatMsg
                   /\ pc' = "except"
                   /\ UNCHANGED <<stdout, i, extracted_texts, confidence_scores>>
             [] r.shape = "badtext" ->    \* line 34: text.strip() raises
                   /\ WriteLine(ProgressLine("Text", <<i + 1, "None", Round3(r.confidence)>>))
                   /\ e' = StripMsg
                   /\ pc' = "except"
                   /\ UNCHANGED <<i, extracted_texts, confidence_scores>>
             [] OTHER ->
                   /\ WriteLine(line)
                   /\ extracted_texts' = Append(extracted_texts, Strip(r.text))
                   /\ confidence_scores' =
                          Append(confidence_scores, Round3(r.confidence))
                   /\ i' = i + 1
                   /\ UNCHANGED <<pc, e>>
    /\ UNCHANGED <<argv, exitStatus, image_path, languages, start_time,
                   end_time, lang_list, reader, results, processing_time,
                   result, initCalls, detectCalls>>

\* Mutant of ReturnResult: the success record also carries an error key.
ReturnResult_WithErrorKey ==
    /\ pc = "L32"
    /\ i = Len(results)
    /\ \E now \in ClockReadings :
          /\ end_time' = now
          /\ processing_time' = Round2(now - start_time)
          /\ WriteLine(ProgressLine("Total processing time", <<Round2(now - start_time)>>))
          /\ result' = [error             |-> "",
                        text_extracted    |-> Join(extracted_texts),
                        individual_texts  |-> extracted_texts,
                        confidence_scores |-> confidence_scores,
                        processing_time   |-> Round2(now - start_time),
                        total_detections  |-> Len(results)]
    /\ pc' = "L74"
    /\ UNCHANGED <<argv, exitStatus, image_path, languages, start_time,
                   lang_list, reader, results, i, extracted_texts,
                   confidence_scores, e, initCalls, detectCalls>>

\* process_image_ocr, lines 37-51: the loop is over; build and return the record.
ReturnResult ==
    /\ pc = "L32"
    /\ i = Len(results)
    /\ \E now \in ClockReadings :
          /\ end_time' = now
          /\ processing_time' = Round2(now - start_time)
          /\ WriteLine(ProgressLine("Total processing time", <<Round2(now - start_time)>>))
          /\ result' = [text_extracted    |-> Join(extracted_texts),
                        individual_texts  |-> extracted_texts,
                        confidence_scores |-> confidence_scores,
                        processing_time   |-> Round2(now - start_time),
                        total_detections  |-> Len(results)]
    /\ pc' = "L74"
    /\ UNCHANGED <<argv, exitStatus, image_path, languages, start_time,
                   lang_list, reader, results, i, extracted_texts,
                   confidence_scores, e, initCalls, detectCalls>>

\* Mutant of ExceptHandler: the record carries a fixed message, not str(e).
ExceptHandler_FixedMessage ==
    /\ pc = "except"
    /\ WriteLine(ProgressLine("Error during OCR processing", <<e>>))
    /\ result' = [error             |-> "OCR failed",
                  text_extracted    |-> <<>>,
                  confidence_scores |-> <<>>,
                  processing_time   |-> 0]
    /\ pc' = "L74"
    /\ UNCHANGED <<argv, exitStatus, image_path, languages, start_time,
                   end_time, lang_list, reader, results, i, extracted_texts,
                   confidence_scores, processing_time, e, initCalls,
                   detectCalls>>

\* Mutant of ExceptHandler: the handler itself prints the JSON record too.
ExceptHandler_PrintsJson ==
    /\ pc = "except"
    /\ WriteLines2(ProgressLine("Error during OCR processing", <<e>>),
                   JsonLine([error             |-> e,
                             text_extracted    |-> <<>>,
                             confidence_scores |-> <<>>,
                             processing_time   |-> 0]))
    /\ result' = [error             |-> e,
                  text_extracted    |-> <<>>,
                  confidence_scores |-> <<>>,
                  processing_time   |-> 0]
    /\ pc' = "L74"
    /\ UNCHANGED <<argv, exitStatus, image_path, languages, start_time,
                   end_time, lang_list, reader, results, i, extracted_texts,
                   confidence_scores, processing_time, e, initCalls,
                   detectCalls>>

\* Mutant of ExceptHandler: the record keeps what the loop had gathered.
ExceptHandler_KeepsPartial ==
    /\ pc = "except"
    /\ WriteLine(ProgressLine("Error during OCR processing", <<e>>))
    /\ result' = [error             |-> e,
                  text_extracted    |-> Join(extracted_texts),
                  confidence_scores |-> confidence_scores,
                  processing_time   |-> 0]
    /\ pc' = "L74"
    /\ UNCHANGED <<argv, exitStatus, image_path, languages, start_time,
                   end_time, lang_list, reader, results, i, extracted_texts,
                   confidence_scores, processing_time, e, initCalls,
                   detectCalls>>

\* process_image_ocr, lines 53-60: except Exception as e.
ExceptHandler ==
    /\ pc = "except"
    /\ WriteLine(ProgressLine("Error during OCR processing", <<e>>))
    /\ result' = [error             |-> e,
                  text_extracted    |-> <<>>,
                  confidence_scores |-> <<>>,
                  processing_time   |-> 0]
    /\ pc' = "L74"
    /\ UNCHANGED <<argv, exitStatus, image_path, languages, start_time,
                   end_time, lang_list, reader, results, i, extracted_texts,
                   confidence_scores, processing_time, e, initCalls,
                   detectCalls>>

\* Mutant of EmitResult: a record with an error key ends the process with status 1.
EmitResult_ExitOneOnError ==
    /\ pc = "L74"
    /\ WriteLine(JsonLine(result))
    /\ exitStatus' = IF "error" \in DOMAIN result THEN 1 ELSE 0
    /\ pc' = "exited"
    /\ UNCHANGED <<argv, image_path, languages, start_time, end_time,
                   lang_list, reader, results, i, extracted_texts,
                   confidence_scores, processing_time, result, e, initCalls,
                   detectCalls>>

\* main, line 74 and the end of the script: print the record, exit status 0.
EmitResult ==
    /\ pc = "L74"
    /\ WriteLine(JsonLine(result))
    /\ exitStatus' = 0
    /\ pc' = "exited"
    /\ UNCHANGED <<argv, image_path, languages, start_time, end_time,
                   lang_list, reader, results, i, extracted_texts,
                   confidence_scores, processing_time, result, e, initCalls,
                   detectCalls>>

Next ==
    \/ MainUsageError
    \/ MainArgsValid
    \/ StartTimer
    \/ InitReaderOk
    \/ InitReaderRaise
    \/ ReadTextOk
    \/ ReadTextRaise
    \/ LoopBody
    \/ ReturnResult
    \/ ExceptHandler
    \/ EmitResult

Spec == Init /\ [][Next]_vars

\* The interpreter runs the script step by step until the process exits.
FairSpec == Spec /\ WF_vars(Next)

----------------------------------------------------------------------------
\* Vocabulary of the properties.

ArgsSupplied == Len(argv) >= 3

Returned == pc \in {"L74", "exited"} /\ ArgsSupplied

SuccessKeys == {"text_extracted", "individual_texts", "confidence_scores",
                "processing_time", "total_detections"}

FailureKeys == {"error", "text_extracted", "confidence_scores", "processing_time"}

MatchesSuccess(v) == DOMAIN v = SuccessKeys

MatchesFailure(v) ==
    /\ DOMAIN v = FailureKeys
    /\ v.text_extracted = <<>>
    /\ v.confidence_scores = <<>>
    /\ v.processing_time = 0

MatchesExactlyOneShape(v) ==
    /\ MatchesSuccess(v) \/ MatchesFailure(v)
    /\ ~(MatchesSuccess(v) /\ MatchesFailure(v))

JsonLines == { k \in 1..Len(stdout) : stdout[k].kind = "json" }

ProgressLines == { k \in 1..Len(stdout) : stdout[k].kind = "progress" }

LastLine == stdout[Len(stdout)]

Phase ==
    CASE pc = "main" -> "START"
      [] pc \in {"L14", "L18", "L24", "L32", "except"} -> "RunOCR"
      [] pc = "L74" -> "EmitResult"
      [] pc = "exited" -> "EXIT"

LoopFailed == e \in {UnpackMsg, FormatMsg, StripMsg}

\* t is s without its leading and trailing whitespace.
IsTrimOf(t, s) ==
    \E a \in 0..Len(s), b \in 0..Len(s) :
        /\ a + b <= Len(s)
        /\ t = SubSeq(s, a + 1, Len(s) - b)
        /\ \A k \in 1..a : s[k] \in Whitespace
        /\ \A k \in (Len(s) - b + 1)..Len(s) : s[k] \in Whitespace
        /\ t # <<>> => (t[1] \notin Whitespace /\ t[Len(t)] \notin Whitespace)

\* r thousandths is the nearest to c half-thousandths, a tie going to the even.
IsRounded(r, c) ==
    /\ 2 * r - c \in {-1, 0, 1}
    /\ 2 * r - c # 0 => r % 2 = 0

\* The position before the k-th text in the texts joined by single spaces.
RECURSIVE Offset(_, _)
Offset(texts, k) ==
    IF k <= 1 THEN 0 ELSE Offset(texts, k - 1) + Len(texts[k - 1]) + 1

\* full is the texts in order with one space between neighbours.
IsJoinOf(full, texts) ==
    /\ Len(full) = IF texts = <<>> THEN 0 ELSE Offset(texts, Len(texts) + 1) - 1
    /\ \A k \in 1..Len(texts) :
          SubSeq(full, Offset(texts, k) + 1, Offset(texts, k) + Len(texts[k]))
              = texts[k]
    /\ \A k \in 2..Len(texts) : full[Offset(texts, k)] = " "

----------------------------------------------------------------------------
\* C1: a run with fewer than two positional arguments writes exactly one JSON
\* object with an error key and no text_extracted key, exits with status 1,
\* and never processes: process_image_ocr is not entered, the engine is
\* neither initialized nor invoked, and no progress line is written.
C1_UsageError ==
    ~ArgsSupplied =>
        /\ pc \in {"main", "exited"}
        /\ initCalls = 0 /\ detectCalls = 0 /\ reader = "none"
        /\ ProgressLines = {}
        /\ pc = "main" => (stdout = <<>> /\ exitStatus = NoExit)
        /\ pc = "exited" =>
              /\ exitStatus = 1
              /\ Len(stdout) = 1
              /\ stdout[1].kind = "json"
              /\ "error" \in stdout[1].keys
              /\ "text_extracted" \notin stdout[1].keys

C1_Witness == pc = "exited" /\ Len(argv) = 2 /\ Len(stdout) = 1

\* C2: every run follows START -> [no arguments: EmitUsageError -> EXIT(1)] /
\* [arguments: RunOCR -> EmitResult -> EXIT(0)]; with both arguments the run
\* reaches EmitResult and exits with status 0 whatever the shape of the
\* record, and only the argument-validation failure exits non-zero.
C2_StateMachine ==
    /\ [][ \/ Phase = "START" /\ Phase' = "EXIT" /\ ~ArgsSupplied /\ exitStatus' = 1
           \/ Phase = "START" /\ Phase' = "RunOCR" /\ ArgsSupplied
           \/ Phase = "RunOCR" /\ Phase' \in {"RunOCR", "EmitResult"}
           \/ Phase = "EmitResult" /\ Phase' = "EXIT" /\ exitStatus' = 0 ]_vars
    /\ [](exitStatus \in {NoExit, 0, 1})
    /\ [](exitStatus = 1 => ~ArgsSupplied)
    /\ [](Phase = "EXIT" <=> exitStatus # NoExit)
    /\ ((ArgsSupplied /\ Phase = "START") ~> Phase = "EmitResult")
    /\ ((ArgsSupplied /\ Phase = "START") ~> (Phase = "EXIT" /\ exitStatus = 0))

C2_Witness ==
    pc = "exited" /\ exitStatus = 0 /\ ArgsSupplied /\ MatchesFailure(result)

\* C3: a failure raised inside process_image_ocr is caught there and becomes
\* the failure record {error: its message, text_extracted: "",
\* confidence_scores: [], processing_time: 0}; nothing propagates to main, the
\* record is emitted and the exit status is 0; for a nonexistent image path
\* the error field is non-empty.
C3_FailureCaught ==
    /\ e # NoExc =>
          /\ pc \in {"except", "L74", "exited"}
          /\ pc \in {"L74", "exited"} =>
                result = [error             |-> e,
                          text_extracted    |-> <<>>,
                          confidence_scores |-> <<>>,
                          processing_time   |-> 0]
          /\ pc = "exited" => (exitStatus = 0 /\ LastLine = JsonLine(result))
    /\ (pc = "exited" /\ ArgsSupplied /\ image_path \notin ExistingImages) =>
          /\ "error" \in DOMAIN result
          /\ result.error # ""
          /\ exitStatus = 0

C3_Witness == pc = "exited" /\ e = FileNotFoundMsg /\ detectCalls = 1

\* C4: in every success record, whatever the engine returned (the empty
\* sequence included), len(individual_texts) = len(confidence_scores) =
\* total_detections = the number of results the engine returned.
C4_Lengths ==
    (Returned /\ "error" \notin DOMAIN result) =>
        /\ MatchesSuccess(result)
        /\ Len(result.individual_texts) = Len(results)
        /\ Len(result.confidence_scores) = Len(results)
        /\ result.total_detections = Len(results)

C4_Witness ==
    /\ pc = "exited" /\ MatchesSuccess(result)
    /\ Len(results) = 2 /\ result.total_detections = 2
    /\ results[1].text = <<" ">>

\* C5: in every success record individual_texts[k] is the trimmed text of the
\* k-th result, confidence_scores[k] the rounded confidence of that same
\* result, and text_extracted the individual_texts joined by single spaces
\* (empty when there are no detections).
C5_Transform ==
    (Returned /\ MatchesSuccess(result)) =>
        /\ DOMAIN result.individual_texts = DOMAIN results
        /\ DOMAIN result.confidence_scores = DOMAIN results
        /\ \A k \in DOMAIN results :
              /\ IsTrimOf(result.individual_texts[k], results[k].text)
              /\ IsRounded(result.confidence_scores[k], results[k].confidence)
        /\ IsJoinOf(result.text_extracted, result.individual_texts)
        /\ results = <<>> => result.text_extracted = <<>>

C5_Witness ==
    /\ pc = "exited" /\ MatchesSuccess(result)
    /\ Len(results) = 2
    /\ results[1].text = <<" ", "a", " ">> /\ results[1].confidence = 3
    /\ results[2].text = <<"a", " ", "b">> /\ results[2].confidence = 1996
    /\ result.text_extracted = <<"a", " ", "a", " ", "b">>
    /\ result.confidence_scores = <<2, 998>>

\* C6 as stated: for every run the final line of stdout is a JSON record that
\* matches exactly one of the two OutputRecord shapes.
C6_EveryRun ==
    pc = "exited" =>
        /\ LastLine.kind = "json"
        /\ MatchesExactlyOneShape(LastLine.value)

\* C6 amended: for every run in which both arguments are supplied, the final
\* line of stdout is a JSON record that matches exactly one of the two
\* OutputRecord shapes.
C6_RunsWithArgs ==
    (pc = "exited" /\ ArgsSupplied) =>
        /\ LastLine.kind = "json"
        /\ MatchesExactlyOneShape(LastLine.value)

C6_Witness ==
    /\ pc = "exited" /\ ArgsSupplied
    /\ MatchesSuccess(LastLine.value)
    /\ results = <<>>

\* C7: with both arguments supplied, stdout holds progress lines and then
\* exactly one JSON record: it is the record the orchestrator returned, it is
\* written only after the orchestrator has returned, on either path, and no
\* progress line follows it.
C7_Stdout ==
    ArgsSupplied =>
        /\ JsonLines # {} => pc = "exited"
        /\ pc = "exited" =>
              /\ JsonLines = {Len(stdout)}
              /\ ProgressLines = 1..(Len(stdout) - 1)
              /\ ProgressLines # {}
              /\ LastLine.value = result
              /\ result # NoRecord

C7_Witness ==
    /\ pc = "exited" /\ ArgsSupplied
    /\ Len(stdout) = 9
    /\ MatchesSuccess(result)

\* C8: in every emitted record processing_time is non-negative: on success
\* the elapsed time between the two clock readings rounded to hundredths, for
\* any pair of readings the wall clock can return; on failure exactly 0.
C8_ProcessingTime ==
    \A k \in JsonLines :
        "processing_time" \in stdout[k].keys =>
            /\ stdout[k].value.processing_time >= 0
            /\ MatchesSuccess(stdout[k].value) =>
                  IsRounded(stdout[k].value.processing_time, end_time - start_time)
            /\ "error" \in stdout[k].keys => stdout[k].value.processing_time = 0

\* C9: within one run the engine is initialized at most once and detection is
\* invoked at most once, detection only after a successful initialization,
\* and after a failure neither is retried: the run goes to the failure record.
C9_NoRetry ==
    /\ [](initCalls <= 1 /\ detectCalls <= 1)
    /\ [](detectCalls = 1 => (initCalls = 1 /\ reader = "ready"))
    /\ [](reader = "ready" => initCalls = 1)
    /\ [][ e # NoExc =>
              /\ UNCHANGED <<initCalls, detectCalls, reader>>
              /\ \/ pc = "except" /\ pc' = "L74" /\ MatchesFailure(result')
                 \/ pc = "L74" /\ pc' = "exited" ]_vars

C9_Witness ==
    /\ pc = "exited" /\ e = UnsupportedLangMsg
    /\ initCalls = 1 /\ detectCalls = 0 /\ reader = "none"

\* C10: no partial-result recovery: when a failure occurs after the engine
\* returned and after k >= 0 regions were appended, the record is the failure
\* shape with text_extracted "" and confidence_scores [], holds none of the k
\* texts or scores, and has no individual_texts or total_detections field.
C10_NoPartialResult ==
    (LoopFailed /\ pc \in {"L74", "exited"}) =>
        /\ Len(extracted_texts) = i /\ Len(confidence_scores) = i
        /\ "error" \in DOMAIN result
        /\ result.text_extracted = <<>>
        /\ result.confidence_scores = <<>>
        /\ "individual_texts" \notin DOMAIN result
        /\ "total_detections" \notin DOMAIN result
        /\ pc = "exited" => LastLine.value = result

C10_Witness ==
    /\ pc = "exited" /\ e = FormatMsg
    /\ i = 1 /\ extracted_texts = << <<"a", " ", "b">> >>
    /\ confidence_scores = <<998>>

====
